---------------------------- MODULE Spec2Model ----------------------------
(***************************************************************************)
(* Model of the ywasm JavaScript reflection helpers:                       *)
(*   src/ywasm/js/reflection.js  (variant "reflection")                    *)
(*   src/unnamed/part_000        (variant "part_000", with string staging) *)
(*   src/unnamed/part_001        (variant "part_001")                      *)
(*                                                                         *)
(* JavaScript values are records with a field t naming the kind of value.  *)
(* Numbers are kept as sign and magnitude bit sequences (most significant  *)
(* bit first) so that values beyond 2^31 (2^53 + 1, 2^32 + 300) can be     *)
(* written and so that ToInt32, & and Number(bigint) are computed on the   *)
(* bits, as the engine computes them.                                      *)
(***************************************************************************)
EXTENDS Integers, Sequences, FiniteSets, TLC

VARIABLES
    variant,              \* which of the three source files is loaded
    last_string_buffer,   \* part_000:39, null or a Uint8Array
    cachedUint8Memory0,   \* part_000:26, null or a view over one ArrayBuffer
    memory,               \* globalThis.__wasm.memory: its current buffer
    pc,                   \* "idle", or "functor" while the callback runs
    call,                 \* the handleAsValue activation whose functor runs
    functorCalls,         \* invocations of functor by the latest handleAsValue
    ret                   \* the latest step: operation, argument, outcome

vars == <<variant, last_string_buffer, cachedUint8Memory0, memory, pc, call,
          functorCalls, ret>>

-----------------------------------------------------------------------------
(* Bounds of the model.                                                    *)

\* Longest string, in UTF-16 code units, handed to handleAsValue.
MaxStrLen == 2
\* Bytes of linear memory at start.
MemInitBytes == 4
\* Bytes one memory.grow adds.
GrowBytes == 2
\* How many times the module's memory grows in one run.
MaxGrows == 1
\* Largest in-range destination offset tried by a stage call.
MaxPtr == 5

-----------------------------------------------------------------------------
(* Bit sequences.                                                          *)

RECURSIVE Bits(_)
Bits(n) == IF n = 0 THEN <<>> ELSE Append(Bits(n \div 2), n % 2)

RECURSIVE BitsVal(_)
BitsVal(b) ==
    IF b = <<>> THEN 0
    ELSE 2 * BitsVal(SubSeq(b, 1, Len(b) - 1)) + b[Len(b)]

Zeros(n) == [i \in 1..n |-> 0]

RECURSIVE Strip(_)
Strip(b) == IF b # <<>> /\ b[1] = 0 THEN Strip(Tail(b)) ELSE b

RECURSIVE Inc(_)
Inc(b) ==
    IF b = <<>> THEN <<1>>
    ELSE IF b[Len(b)] = 0 THEN [b EXCEPT ![Len(b)] = 1]
    ELSE Append(Inc(SubSeq(b, 1, Len(b) - 1)), 0)

\* The low w bits of a magnitude, as exactly w bits.
Low(b, w) ==
    IF Len(b) >= w THEN SubSeq(b, Len(b) - w + 1, Len(b))
    ELSE Zeros(w - Len(b)) \o b

-----------------------------------------------------------------------------
(* JavaScript values.                                                      *)

Undefined == [t |-> "undefined"]
Null == [t |-> "null"]
NaN == [k |-> "nan"]
Infinity == [k |-> "inf", neg |-> FALSE]
Fin(neg, mag, half) ==
    [k |-> "fin", neg |-> neg /\ (Strip(mag) # <<>> \/ half),
     mag |-> Strip(mag), half |-> half]
NumOfInt(i) == Fin(i < 0, Bits(IF i < 0 THEN -i ELSE i), FALSE)
JsNumber(num) == [t |-> "number", num |-> num]
JsBoolean(b) == [t |-> "boolean", b |-> b]
JsBigInt(neg, mag) == [t |-> "bigint", neg |-> neg, mag |-> Strip(mag)]
JsString(s) == [t |-> "string", s |-> s]
JsArray == [t |-> "array"]
JsFunction == [t |-> "function"]
JsSymbol == [t |-> "symbol"]
\* An ordinary object with its own "type" and "__wbg_ptr" properties
\* (Undefined: the property is absent).
JsObject(type, ptr) == [t |-> "object", type |-> type, ptr |-> ptr]


-----------------------------------------------------------------------------
(* Language primitives the helpers rely on.                                *)

\* typeof v
TypeOf(v) ==
    CASE v.t = "null" -> "object"
      [] v.t = "array" -> "object"
      [] OTHER -> v.t

\* Array.isArray(v), and a faulty variant that never recognises an array.
IsArray_never(v) == FALSE
IsArray(v) == v.t = "array"

\* A property read target[name] on a value that is neither undefined nor
\* null: own properties of an ordinary object, undefined on anything else
\* (primitives are boxed, and no prototype defines these names).
Get(target, name) ==
    IF target.t = "object"
    THEN IF name = "type" THEN target.type ELSE target.ptr
    ELSE Undefined

\* Outcomes of a call: a normal completion, or the exception thrown.
Normal == [name |-> "none", message |-> ""]
Throw(name, message) == [name |-> name, message |-> message]
TypeError == Throw("TypeError", "cannot read properties of undefined or null")
ReferenceError(id) == Throw("ReferenceError", id)
RangeError == Throw("RangeError", "source is too large")

\* ToInt32(num), as 32 two's-complement bits.
Int32Width == 32
Neg32(b) == Low(Inc([i \in 1..Len(b) |-> 1 - b[i]]), Int32Width)
ToInt32(num) ==
    IF num.k # "fin" THEN Zeros(Int32Width)
    ELSE IF num.neg THEN Neg32(Low(num.mag, Int32Width))
    ELSE Low(num.mag, Int32Width)

\* a & b on 32-bit operands
BitAnd(a, b) == [i \in 1..Int32Width |-> a[i] * b[i]]

\* Number(v) for a bigint v: the nearest double, ties to even, on a
\* significand of DoubleMantissa bits.
DoubleMantissa == 53
NumberOfBigInt(v) ==
    LET m == v.mag
        n == Len(m)
    IN  IF n <= DoubleMantissa THEN Fin(v.neg, m, FALSE)
        ELSE LET top == SubSeq(m, 1, DoubleMantissa)
                 guard == m[DoubleMantissa + 1]
                 sticky == \E i \in (DoubleMantissa + 2)..n : m[i] = 1
                 up == guard = 1 /\ (sticky \/ top[DoubleMantissa] = 1)
                 r == IF up THEN Inc(top) ELSE top
             IN  Fin(v.neg, r \o Zeros(n - DoubleMantissa), FALSE)

\* TextEncoder.encode: the UTF-8 bytes of a sequence of UTF-16 code units.
\* A surrogate pair is one 4-byte code point; a lone surrogate is encoded
\* as U+FFFD (EF BF BD).
IsHighSurrogate(u) == u >= 55296 /\ u <= 56319
IsLowSurrogate(u) == u >= 56320 /\ u <= 57343
RECURSIVE Utf8From(_, _)
Utf8From(s, i) ==
    IF i > Len(s) THEN <<>>
    ELSE LET u == s[i] IN
         IF u < 128 THEN <<u>> \o Utf8From(s, i + 1)
         ELSE IF u < 2048
         THEN <<192 + (u \div 64), 128 + (u % 64)>> \o Utf8From(s, i + 1)
         ELSE IF IsHighSurrogate(u) /\ i < Len(s) /\ IsLowSurrogate(s[i + 1])
         THEN LET cp == 65536 + (u - 55296) * 1024 + (s[i + 1] - 56320)
              IN  <<240 + (cp \div 262144), 128 + ((cp \div 4096) % 64),
                    128 + ((cp \div 64) % 64), 128 + (cp % 64)>>
                  \o Utf8From(s, i + 2)
         ELSE IF IsHighSurrogate(u) \/ IsLowSurrogate(u)
         THEN <<239, 191, 189>> \o Utf8From(s, i + 1)
         ELSE <<224 + (u \div 4096), 128 + ((u \div 64) % 64), 128 + (u % 64)>>
              \o Utf8From(s, i + 1)

\* cachedTextEncoder.encode(target): a fresh Uint8Array.  TextEncoder is
\* taken to exist, as it does in every host that runs WebAssembly.
Uint8Array(bytes) == [t |-> "Uint8Array", bytes |-> bytes]
cachedTextEncoder_encode(target) == Uint8Array(Utf8From(target.s, 1))

-----------------------------------------------------------------------------
(* The three source files.  An identifier a file uses but does not declare *)
(* is unresolvable in module code: reading it throws a ReferenceError.     *)

Variants == {"reflection", "part_000", "part_001"}

\* const JS_PTR = "__wbg_ptr"
JS_PTR_declared(v) == v \in {"reflection", "part_000"}
\* const NOT_WASM_OBJ = "provided reference is not a WebAssembly object"
NOT_WASM_OBJ_declared(v) == v = "reflection"
NOT_WASM_OBJ == "provided reference is not a WebAssembly object"

ExportsHandleAsValue(v) == v \in {"part_000", "part_001"}
ExportsFillAsValueString(v) == v = "part_000"

\* getWasmPtr(target): [thrown, value]
getWasmPtr(v, target) ==
    IF ~JS_PTR_declared(v)
    THEN [thrown |-> ReferenceError("JS_PTR"), value |-> Undefined]
    ELSE IF target.t \in {"undefined", "null"}
    THEN [thrown |-> TypeError, value |-> Undefined]
    ELSE LET ptr == Get(target, "__wbg_ptr") IN
         IF TypeOf(ptr) # "number"
         THEN IF NOT_WASM_OBJ_declared(v)
              THEN [thrown |-> Throw("Error", NOT_WASM_OBJ), value |-> Undefined]
              ELSE [thrown |-> ReferenceError("NOT_WASM_OBJ"),
                    value |-> Undefined]
         ELSE [thrown |-> Normal, value |-> ptr]

\* getTypeJs(target): [thrown, value]; the value is the integer returned.
ByteMask == 255
getTypeJs(target) ==
    IF target.t \in {"undefined", "null"}
    THEN [thrown |-> TypeError, value |-> -1]
    ELSE LET tag == Get(target, "type") IN
         IF TypeOf(tag) = "number"
         THEN [thrown |-> Normal,
               value |-> BitsVal(BitAnd(ToInt32(tag.num),
                                        Low(Bits(ByteMask), Int32Width)))]
         ELSE [thrown |-> Normal, value |-> 255]

-----------------------------------------------------------------------------
(* handleAsValue, up to the call of functor (part_000:51-77,               *)
(* part_001:23-45): the tag, the number, and the Handoff Buffer after it.  *)

handleAsValue(v, target, buf) ==
    IF target.t = "undefined"
    THEN [resultEnum |-> 0, resultNumber |-> NumOfInt(0),
          last_string_buffer |-> buf]
    ELSE IF target.t = "null"
    THEN [resultEnum |-> 1, resultNumber |-> NumOfInt(0),
          last_string_buffer |-> buf]
    ELSE IF TypeOf(target) = "number"
    THEN [resultEnum |-> 2, resultNumber |-> target.num,
          last_string_buffer |-> buf]
    ELSE IF TypeOf(target) = "boolean"
    THEN [resultEnum |-> 3,
          resultNumber |-> IF target.b THEN NumOfInt(1) ELSE NumOfInt(0),
          last_string_buffer |-> buf]
    ELSE IF TypeOf(target) = "bigint"
    THEN [resultEnum |-> 4, resultNumber |-> NumberOfBigInt(target),
          last_string_buffer |-> buf]
    ELSE IF TypeOf(target) = "string"
    THEN IF v = "part_000"
         THEN LET enc == cachedTextEncoder_encode(target) IN
              [resultEnum |-> 5, resultNumber |-> NumOfInt(Len(enc.bytes)),
               last_string_buffer |-> enc]
         ELSE [resultEnum |-> 5, resultNumber |-> NumOfInt(0),
               last_string_buffer |-> buf]
    ELSE IF IsArray(target)
    THEN [resultEnum |-> 6, resultNumber |-> NumOfInt(0),
          last_string_buffer |-> buf]
    ELSE IF TypeOf(target) = "object"
    THEN [resultEnum |-> 7, resultNumber |-> NumOfInt(0),
          last_string_buffer |-> buf]
    ELSE [resultEnum |-> -1, resultNumber |-> NumOfInt(0),
          last_string_buffer |-> buf]

-----------------------------------------------------------------------------
(* Linear memory and the cached view (part_000:26-46).                     *)
(* memory.buffer is an ArrayBuffer with an identity; memory.grow replaces  *)
(* it by a new one and detaches the old one, whose length becomes 0.       *)

View(buffer) == [t |-> "Uint8Array", buffer |-> buffer]
ViewLength(view, mem) == IF view.buffer = mem.id THEN Len(mem.bytes) ELSE 0

\* getUint8Memory0(): [thrown, cachedUint8Memory0].  The condition reads
\* `wasm` outside the block that declares it; nothing else in the file
\* declares it, so the read throws once the left operand of || is false.
getUint8Memory0(cached, mem) ==
    IF cached.t = "null"
    THEN [thrown |-> Normal, cachedUint8Memory0 |-> View(mem.id)]
    ELSE [thrown |-> ReferenceError("wasm"), cachedUint8Memory0 |-> cached]

\* x >>> 0 as 32 bits, read unsigned.
ToUint32(num) == ToInt32(num)

\* Whether the unsigned value of bits b is greater than the small integer n.
Exceeds(b, n) ==
    LET sb == Strip(b) IN
    \/ Len(sb) > Len(Bits(n))
    \/ Len(sb) <= Len(Bits(n)) /\ BitsVal(sb) > n

\* view.subarray(ptr, ptr + n) on a view of length len: [begin, end), both
\* clamped to the view.
Subarray(ptr, n, len) ==
    IF Exceeds(ptr, len) THEN [begin |-> len, end |-> len]
    ELSE LET p == BitsVal(Strip(ptr)) IN
         [begin |-> p, end |-> IF p + n > len THEN len ELSE p + n]

\* sub.set(src): the bytes of the memory after the copy.
SetBytes(bytes, begin, src) ==
    [i \in 1..Len(bytes) |->
        IF i > begin /\ i <= begin + Len(src) THEN src[i - begin]
        ELSE bytes[i]]

\* What a stage call leaves behind.
Staged(thrown, buf, cached, bytes) ==
    [thrown |-> thrown, last_string_buffer |-> buf,
     cachedUint8Memory0 |-> cached, bytes |-> bytes]

\* Faulty variants of fillAsValueString, used to show that the properties
\* below depend on it.
\* (a) line 45 missing: the buffer is not cleared after the copy.
fillAsValueString_keepsBuffer(ptr_raw, buf, cached, mem) ==
    LET got == getUint8Memory0(cached, mem)
        view == got.cachedUint8Memory0
    IN  IF got.thrown # Normal THEN Staged(got.thrown, buf, view, mem.bytes)
        ELSE IF buf.t = "null" THEN Staged(TypeError, buf, view, mem.bytes)
        ELSE LET sub == Subarray(ToUint32(ptr_raw), Len(buf.bytes),
                                 ViewLength(view, mem))
             IN  IF Len(buf.bytes) > sub.end - sub.begin
                 THEN Staged(RangeError, buf, view, mem.bytes)
                 ELSE Staged(Normal, buf, view,
                             SetBytes(mem.bytes, sub.begin, buf.bytes))

\* (b) an empty buffer is taken for an empty byte sequence: the call
\* completes.
fillAsValueString_nullIsEmpty(ptr_raw, buf, cached, mem) ==
    LET got == getUint8Memory0(cached, mem)
        view == got.cachedUint8Memory0
    IN  IF got.thrown # Normal THEN Staged(got.thrown, buf, view, mem.bytes)
        ELSE IF buf.t = "null" THEN Staged(Normal, Null, view, mem.bytes)
        ELSE LET sub == Subarray(ToUint32(ptr_raw), Len(buf.bytes),
                                 ViewLength(view, mem))
             IN  IF Len(buf.bytes) > sub.end - sub.begin
                 THEN Staged(RangeError, buf, view, mem.bytes)
                 ELSE Staged(Normal, Null, view,
                             SetBytes(mem.bytes, sub.begin, buf.bytes))

\* (c) a byte-by-byte copy: the bytes that fit are written before the
\* range error is raised.
fillAsValueString_partialCopy(ptr_raw, buf, cached, mem) ==
    LET got == getUint8Memory0(cached, mem)
        view == got.cachedUint8Memory0
    IN  IF got.thrown # Normal THEN Staged(got.thrown, buf, view, mem.bytes)
        ELSE IF buf.t = "null" THEN Staged(TypeError, buf, view, mem.bytes)
        ELSE LET sub == Subarray(ToUint32(ptr_raw), Len(buf.bytes),
                                 ViewLength(view, mem))
             IN  IF Len(buf.bytes) > sub.end - sub.begin
                 THEN Staged(RangeError, buf, view,
                             SetBytes(mem.bytes, sub.begin,
                                      SubSeq(buf.bytes, 1, sub.end - sub.begin)))
                 ELSE Staged(Normal, Null, view,
                             SetBytes(mem.bytes, sub.begin, buf.bytes))

\* fillAsValueString(ptr_raw):
\*   [thrown, last_string_buffer, cachedUint8Memory0, bytes]
\* getUint8Memory0() is evaluated first, then last_string_buffer.length
\* (a TypeError on null), then subarray and set (a RangeError when the
\* source is longer than the subarray; nothing is written then).
fillAsValueString(ptr_raw, buf, cached, mem) ==
    LET ptr == ToUint32(ptr_raw)
        got == getUint8Memory0(cached, mem)
        view == got.cachedUint8Memory0
    IN  IF got.thrown # Normal THEN Staged(got.thrown, buf, view, mem.bytes)
        ELSE IF buf.t = "null" THEN Staged(TypeError, buf, view, mem.bytes)
        ELSE LET sub == Subarray(ptr, Len(buf.bytes), ViewLength(view, mem))
             IN  IF Len(buf.bytes) > sub.end - sub.begin
                 THEN Staged(RangeError, buf, view, mem.bytes)
                 ELSE Staged(Normal, Null, view,
                             SetBytes(mem.bytes, sub.begin, buf.bytes))

-----------------------------------------------------------------------------
(* Inputs.                                                                 *)

\* Strings of at most n UTF-16 code units over an alphabet.
Strings(alphabet, n) ==
    UNION {{JsString(s) : s \in [1..k -> alphabet]} : k \in 0..n}

\* 'h' (1 byte), e-acute (2 bytes), the euro sign (3 bytes), and the two
\* halves of the surrogate pair of U+1F600 (4 bytes together, U+FFFD alone).
ClassifyAlphabet == {104, 233, 8364, 55357, 56832}
StageAlphabet == {104, 233}

Pow2(k) == <<1>> \o Zeros(k)
Half(neg, i) == Fin(neg, Bits(i), TRUE)
Numbers ==
    {NumOfInt(i) : i \in {0, 1, 7, 255, 256, 300, -1, -300}}
    \cup {Half(FALSE, 3), Half(TRUE, 3), NaN, Infinity,
          Fin(FALSE, Pow2(31), FALSE),
          Fin(FALSE, <<1>> \o Low(Bits(300), 32), FALSE),
          Fin(TRUE, <<1>> \o Low(Bits(300), 32), FALSE),
          Fin(FALSE, Pow2(53), FALSE)}

BigInts ==
    {JsBigInt(FALSE, Bits(i)) : i \in {0, 1, 1000}}
    \cup {JsBigInt(TRUE, Bits(5)),
          JsBigInt(FALSE, Pow2(53)),
          JsBigInt(FALSE, <<1>> \o Low(Bits(1), 53)),
          JsBigInt(TRUE, <<1>> \o Low(Bits(1), 53)),
          JsBigInt(FALSE, <<1>> \o Low(Bits(2), 53)),
          JsBigInt(FALSE, <<1>> \o Low(Bits(3), 53)),
          JsBigInt(FALSE, [i \in 1..54 |-> 1]),
          JsBigInt(FALSE, <<1>> \o Low(Bits(5), 55))}

FieldValues ==
    {Undefined, Null, JsString(<<55>>), JsBoolean(TRUE)}
    \cup {JsNumber(x) : x \in Numbers}

\* Objects with one of the two properties, or both.
Objects ==
    {JsObject(ty, Undefined) : ty \in FieldValues}
    \cup {JsObject(Undefined, p) : p \in FieldValues}
    \cup {JsObject(JsNumber(NumOfInt(300)), JsNumber(NumOfInt(7))),
          JsObject(JsString(<<55>>), JsNumber(Half(FALSE, 3))),
          JsObject(JsNumber(NumOfInt(7)), JsString(<<55>>))}

ReflectTargets ==
    {Undefined, Null, JsNumber(NumOfInt(5)), JsString(<<104>>), JsArray,
     JsFunction} \cup Objects

ClassifyTargets ==
    {Undefined, Null, JsBoolean(TRUE), JsBoolean(FALSE), JsArray, JsFunction,
     JsSymbol, JsObject(Undefined, Undefined),
     JsObject(JsNumber(NumOfInt(7)), JsNumber(NumOfInt(1)))}
    \cup {JsNumber(x) : x \in Numbers}
    \cup BigInts
    \cup Strings(ClassifyAlphabet, MaxStrLen)

StageTargets ==
    {Undefined, JsNumber(NumOfInt(7)), JsArray}
    \cup Strings(StageAlphabet, MaxStrLen)

\* Destination offsets: in and beyond the memory, and -1 (4294967295 after
\* >>> 0).
Offsets == {NumOfInt(i) : i \in -1..MaxPtr}

-----------------------------------------------------------------------------
(* The state machine.                                                      *)

NoCall == [active |-> FALSE]
Step(op, arg, thrown, value) ==
    [op |-> op, arg |-> arg, thrown |-> thrown, value |-> value]

Init ==
    /\ variant \in Variants
    /\ last_string_buffer = Null
    /\ cachedUint8Memory0 = Null
    /\ memory = [id |-> 0, bytes |-> Zeros(MemInitBytes)]
    /\ pc = "idle"
    /\ call = NoCall
    /\ functorCalls = 0
    /\ ret = Step("init", Undefined, Normal, Undefined)

\* getWasmPtr(target)
CallGetWasmPtr(target) ==
    /\ pc = "idle"
    /\ LET r == getWasmPtr(variant, target) IN
       ret' = Step("getWasmPtr", target, r.thrown, r.value)
    /\ UNCHANGED <<variant, last_string_buffer, cachedUint8Memory0, memory,
                   pc, call, functorCalls>>

\* getTypeJs(target)
CallGetTypeJs(target) ==
    /\ pc = "idle"
    /\ LET r == getTypeJs(target) IN
       ret' = Step("getTypeJs", target, r.thrown, r.value)
    /\ UNCHANGED <<variant, last_string_buffer, cachedUint8Memory0, memory,
                   pc, call, functorCalls>>

\* handleAsValue(target, functor), up to and including the call of functor
\* on its last line: control is now inside functor.
CallHandleAsValue(target) ==
    /\ ExportsHandleAsValue(variant)
    /\ pc = "idle"
    /\ LET r == handleAsValue(variant, target, last_string_buffer) IN
       /\ last_string_buffer' = r.last_string_buffer
       /\ call' = [active |-> TRUE, target |-> target,
                   resultEnum |-> r.resultEnum,
                   resultNumber |-> r.resultNumber]
    /\ pc' = "functor"
    /\ functorCalls' = 1
    /\ ret' = Step("handleAsValue", Undefined, Normal, Undefined)
    /\ UNCHANGED <<variant, cachedUint8Memory0, memory>>

\* functor returns, and handleAsValue with it.
FunctorReturns ==
    /\ pc = "functor"
    /\ pc' = "idle"
    /\ call' = NoCall
    /\ ret' = Step("return", Undefined, Normal, Undefined)
    /\ UNCHANGED <<variant, last_string_buffer, cachedUint8Memory0, memory,
                   functorCalls>>

\* fillAsValueString(ptr_raw), called by the module at any time, also from
\* inside functor.
CallFillAsValueString(ptr_raw) ==
    /\ ExportsFillAsValueString(variant)
    /\ LET r == fillAsValueString(ptr_raw, last_string_buffer,
                                  cachedUint8Memory0, memory) IN
       /\ last_string_buffer' = r.last_string_buffer
       /\ cachedUint8Memory0' = r.cachedUint8Memory0
       /\ memory' = [memory EXCEPT !.bytes = r.bytes]
       /\ ret' = Step("fillAsValueString", ptr_raw, r.thrown, Undefined)
    /\ UNCHANGED <<variant, pc, call, functorCalls>>

\* The module grows its memory: a new buffer, the old one detached.
MemoryGrow ==
    /\ memory.id < MaxGrows
    /\ memory' = [id |-> memory.id + 1,
                  bytes |-> memory.bytes \o Zeros(GrowBytes)]
    /\ ret' = Step("grow", Undefined, Normal, Undefined)
    /\ UNCHANGED <<variant, last_string_buffer, cachedUint8Memory0, pc, call,
                   functorCalls>>

\* The staging protocol: classification, the callback, staging, growth.
Next ==
    \/ \E target \in StageTargets : CallHandleAsValue(target)
    \/ FunctorReturns
    \/ \E ptr_raw \in Offsets : CallFillAsValueString(ptr_raw)
    \/ MemoryGrow

Spec == Init /\ [][Next]_vars

\* The classifier alone, over every kind of value.
NextClassify ==
    \/ \E target \in ClassifyTargets : CallHandleAsValue(target)
    \/ FunctorReturns

SpecClassify == Init /\ [][NextClassify]_vars

\* The two reflection queries.
NextReflect ==
    \/ \E target \in ReflectTargets : CallGetWasmPtr(target)
    \/ \E target \in ReflectTargets : CallGetTypeJs(target)

SpecReflect == Init /\ [][NextReflect]_vars

-----------------------------------------------------------------------------
(* A caller that keeps the calling convention: it stages only while a      *)
(* string is pending, and only into a range that lies inside the memory.   *)

Pending == last_string_buffer.t # "null"

\* [offset, offset + n) lies inside the memory (offset a non-negative
\* integer).
Fits(offset, n, mem) ==
    /\ offset.k = "fin" /\ ~offset.neg /\ ~offset.half
    /\ n <= Len(mem.bytes)
    /\ ~Exceeds(offset.mag, Len(mem.bytes) - n)

DisciplinedFill(ptr_raw) ==
    /\ Pending
    /\ Fits(ptr_raw, Len(last_string_buffer.bytes), memory)
    /\ CallFillAsValueString(ptr_raw)

NextProtocol ==
    \/ \E target \in StageTargets : CallHandleAsValue(target)
    \/ FunctorReturns
    \/ \E ptr_raw \in Offsets : DisciplinedFill(ptr_raw)
    \/ MemoryGrow

SpecProtocol == Init /\ [][NextProtocol]_vars

-----------------------------------------------------------------------------
(* Properties.                                                             *)

Zero == NumOfInt(0)
One == NumOfInt(1)

\* The tag the priority table gives each kind of value.
TableTag(v) ==
    CASE v.t = "undefined" -> 0
      [] v.t = "null" -> 1
      [] v.t = "number" -> 2
      [] v.t = "boolean" -> 3
      [] v.t = "bigint" -> 4
      [] v.t = "string" -> 5
      [] v.t = "array" -> 6
      [] v.t = "object" -> 7
      [] OTHER -> -1

\* The double nearest to an integer of magnitude m (ties to even), by
\* arithmetic on the bits below the 53rd: x = top * 2^k + tail lies between
\* top * 2^k and (top + 1) * 2^k.
NearestDouble(neg, m) ==
    IF Len(m) <= 53 THEN Fin(neg, m, FALSE)
    ELSE LET k == Len(m) - 53
             top == SubSeq(m, 1, 53)
             tail == BitsVal(SubSeq(m, 54, Len(m)))
             down == 2 * tail < 2 ^ k \/ (2 * tail = 2 ^ k /\ top[53] = 0)
         IN  Fin(neg, (IF down THEN top ELSE Inc(top)) \o Zeros(k), FALSE)

\* The number of bytes of the UTF-8 encoding of a string, code point by
\* code point.
RECURSIVE Utf8Length(_, _)
Utf8Length(s, i) ==
    IF i > Len(s) THEN 0
    ELSE IF IsHighSurrogate(s[i]) /\ i < Len(s) /\ IsLowSurrogate(s[i + 1])
    THEN 4 + Utf8Length(s, i + 2)
    ELSE (CASE s[i] < 128 -> 1 [] s[i] >= 128 /\ s[i] < 2048 -> 2 [] OTHER -> 3)
         + Utf8Length(s, i + 1)

\* C1: while functor runs, the tag it was given is the tag of the first
\* matching row of the priority table for the classified value (0 undefined,
\* 1 null, 2 number, 3 boolean, 4 bigint, 5 string, 6 array, 7 other object,
\* -1 anything else), and the payload is the number itself for a number,
\* 1 or 0 for a boolean, the nearest double for a bigint, and 0 for tags
\* 0, 1, 6, 7 and -1.
C1_ClassifyFollowsTable ==
    pc = "functor" =>
        LET v == call.target IN
        /\ call.resultEnum = TableTag(v)
        /\ v.t = "number" => call.resultNumber = v.num
        /\ v.t = "boolean" =>
               call.resultNumber = (IF v.b THEN One ELSE Zero)
        /\ v.t = "bigint" => call.resultNumber = NearestDouble(v.neg, v.mag)
        /\ v.t \in {"undefined", "null", "array", "object", "function",
                    "symbol"} => call.resultNumber = Zero

\* C1 witness: the bigint 2^53 + 1 was classified with tag 4 and payload
\* 2^53.
C1_Witness ==
    /\ pc = "functor"
    /\ call.target = JsBigInt(FALSE, <<1>> \o Low(Bits(1), 53))
    /\ call.resultEnum = 4
    /\ call.resultNumber = Fin(FALSE, Pow2(53), FALSE)

\* C2 (as claimed): in part_000 the payload reported for a string is the
\* length of its UTF-8 encoding, and a stage call made while the string is
\* pending, into a range inside the memory, completes and leaves exactly the
\* pending bytes at [offset, offset + length) and every other byte as it was.
C2_StageWritesEncoding ==
    /\ [](pc = "functor" /\ variant = "part_000" /\ call.target.t = "string"
            => call.resultNumber = NumOfInt(Utf8Length(call.target.s, 1)))
    /\ [][(/\ ret'.op = "fillAsValueString"
           /\ Pending
           /\ Fits(ret'.arg, Len(last_string_buffer.bytes), memory))
          => /\ ret'.thrown = Normal
             /\ LET off == BitsVal(ret'.arg.mag)
                    src == last_string_buffer.bytes
                IN  \A i \in 1..Len(memory.bytes) :
                       memory'.bytes[i] =
                           IF i > off /\ i <= off + Len(src)
                           THEN src[i - off] ELSE memory.bytes[i]]_vars

LowByte(num) ==
    IF num.k # "fin" THEN 0
    ELSE LET b == BitsVal(Low(num.mag, 8)) IN
         IF num.neg THEN (256 - b) % 256 ELSE b

\* C4 (as claimed): getTypeJs never fails, for any argument: it returns 255
\* when the argument has no numeric type field and type & 0xFF when it has
\* one, always an integer in 0..255.
C4_GetTypeJsNeverFails ==
    ret.op = "getTypeJs" =>
        /\ ret.thrown = Normal
        /\ ret.value \in 0..255
        /\ LET has == ret.arg.t = "object" /\ ret.arg.type.t = "number" IN
           ret.value = (IF has THEN LowByte(ret.arg.type.num) ELSE 255)

\* C5 (as claimed): in every variant getWasmPtr, given an object, throws
\* Error("provided reference is not a WebAssembly object") when __wbg_ptr is
\* absent or not a number, and returns the field's number otherwise.
C5_GetWasmPtrContract ==
    (ret.op = "getWasmPtr" /\ ret.arg.t = "object") =>
        IF ret.arg.ptr.t = "number"
        THEN ret.thrown = Normal /\ ret.value = ret.arg.ptr
        ELSE ret.thrown =
                 Throw("Error", "provided reference is not a WebAssembly object")

\* C6 (as claimed): handleAsValue calls functor exactly once with the tag
\* and payload of the call; for a string the Handoff Buffer holds the
\* encoded bytes while functor runs, and a stage call made from inside
\* functor (into a range inside the memory) completes.
C6_CallbackCanStage ==
    /\ [](pc = "functor" =>
            /\ functorCalls = 1
            /\ call.resultEnum = TableTag(call.target)
            /\ (variant = "part_000" /\ call.target.t = "string") =>
                   (ret.op = "handleAsValue" =>
                        last_string_buffer =
                            cachedTextEncoder_encode(call.target)))
    /\ [][(/\ pc = "functor"
           /\ ret'.op = "fillAsValueString"
           /\ Pending
           /\ Fits(ret'.arg, Len(last_string_buffer.bytes), memory))
          => ret'.thrown = Normal]_vars

\* A step that classifies a string in part_000, and a step that is a
\* completed stage call.
TextClassified == ret'.op = "handleAsValue" /\ call'.target.t = "string"
FillCompleted == ret'.op = "fillAsValueString" /\ ret'.thrown = Normal

\* C7: in part_000 the Handoff Buffer starts empty; a string classification
\* leaves it non-empty, a completed stage call leaves it empty, and every
\* other step (a classification of another kind of value, a failed stage
\* call, a return, a growth) leaves it as it was.
C7_BufferLifecycle ==
    /\ last_string_buffer = Null
    /\ [][variant = "part_000" =>
            /\ TextClassified => last_string_buffer'.t # "null"
            /\ FillCompleted => last_string_buffer' = Null
            /\ (~TextClassified /\ ~FillCompleted) =>
                   last_string_buffer' = last_string_buffer]_vars

\* C7 witness: a stage call has completed, bytes are in memory and the
\* buffer is empty again.
C7_Witness ==
    /\ ret.op = "fillAsValueString"
    /\ ret.thrown = Normal
    /\ last_string_buffer = Null
    /\ memory.bytes # Zeros(Len(memory.bytes))

\* C8 (as claimed): a stage call with a string pending and a destination
\* inside the memory completes, whatever calls and growths came before, and
\* the view it wrote through is a view of the memory's current buffer.
C8_StageUsesCurrentMemory ==
    [][(/\ ret'.op = "fillAsValueString"
        /\ Pending
        /\ Fits(ret'.arg, Len(last_string_buffer.bytes), memory))
       => /\ ret'.thrown = Normal
          /\ cachedUint8Memory0' = View(memory.id)]_vars

\* C9 (as claimed): the buffer holds the bytes of the most recently
\* classified string only, so the next stage call after strings A then B
\* (into a range inside the memory) copies the bytes of B and empties the
\* buffer.
C9_LatestStringStaged ==
    /\ [][(variant = "part_000" /\ TextClassified) =>
             last_string_buffer' = cachedTextEncoder_encode(call'.target)]_vars
    /\ [][(/\ ret'.op = "fillAsValueString"
           /\ Pending
           /\ Fits(ret'.arg, Len(last_string_buffer.bytes), memory))
          => /\ SubSeq(memory'.bytes, BitsVal(ret'.arg.mag) + 1,
                       BitsVal(ret'.arg.mag) + Len(last_string_buffer.bytes))
                = last_string_buffer.bytes
             /\ last_string_buffer' = Null]_vars

\* C10: a stage call that fails changes no byte of the memory and leaves
\* the Handoff Buffer as it was.
C10_FailedStageChangesNothing ==
    [][(ret'.op = "fillAsValueString" /\ ret'.thrown # Normal)
       => /\ memory' = memory
          /\ last_string_buffer' = last_string_buffer]_vars

\* C10 witness: a stage call failed because the pending bytes do not fit at
\* the offset; the bytes are still pending.
C10_Witness ==
    /\ ret.op = "fillAsValueString"
    /\ ret.thrown = RangeError
    /\ Pending
    /\ Len(last_string_buffer.bytes) > 0

=============================================================================
